---- MODULE Spec2Model ----
(***************************************************************************)
(* A model of the socket chat server of src/main.go: the Hub (registry of  *)
(* users), one handleConn dispatcher per connection, one clientWriter per  *)
(* logged-in client, and the idle timer with its waiting goroutine.        *)
(*                                                                         *)
(* Text is modelled as sequences of one-character strings, so that         *)
(* cleanLine, TrimSpace, SplitN, ToUpper and HasPrefix are computed the    *)
(* way the Go code computes them.                                          *)
(***************************************************************************)
EXTENDS Naturals, Sequences, FiniteSets, TLC

(***************************************************************************)
(* Bounds of the model.                                                    *)
(***************************************************************************)
NConns == 3        \* connections accepted by main's accept loop
MaxEvents == 4     \* lines sent and connections closed by the clients, all together
MaxIdleEvents == 3 \* the same, while time passes
MaxParseEvents == 3 \* the same, with lines of every shape
MaxStallEvents == 3 \* the same, with clients that stop reading
TickLen == 30      \* the step by which time advances
MaxTime == 60      \* the time the model runs for

(***************************************************************************)
(* Program constants.                                                      *)
(***************************************************************************)
MailboxCap == 32   \* make(chan string, 32)
IdleTimeout == 60  \* 60 * time.Second

Conns == 1..NConns
NoConn == 0        \* no connection

(***************************************************************************)
(* strings package, on sequences of characters.                            *)
(***************************************************************************)
IsSpace(ch) == ch \in {" ", "\t", "\r", "\n"}

Lower ==
  <<"a", "b", "c", "d", "e", "f", "g", "h", "i", "j", "k", "l", "m", "n", "o", "p", "q", "r", "s", "t", "u", "v", "w", "x", "y", "z">>
Upper ==
  <<"A", "B", "C", "D", "E", "F", "G", "H", "I", "J", "K", "L", "M", "N", "O", "P", "Q", "R", "S", "T", "U", "V", "W", "X", "Y", "Z">>

ToUpperCh(ch) ==
  IF \E i \in 1..Len(Lower) : Lower[i] = ch
  THEN Upper[CHOOSE i \in 1..Len(Lower) : Lower[i] = ch]
  ELSE ch

ToUpper(s) == [i \in 1..Len(s) |-> ToUpperCh(s[i])]

HasPrefix(s, p) == Len(s) >= Len(p) /\ SubSeq(s, 1, Len(p)) = p

HasSuffix(s, p) == Len(s) >= Len(p) /\ SubSeq(s, Len(s) - Len(p) + 1, Len(s)) = p

Contains(s, ch) == \E i \in 1..Len(s) : s[i] = ch

IsNotCR(ch) == ch # "\r"

ReplaceAllCR(s) == SelectSeq(s, IsNotCR)

RECURSIVE TrimLeft(_)
TrimLeft(s) == IF s # <<>> /\ IsSpace(Head(s)) THEN TrimLeft(Tail(s)) ELSE s

RECURSIVE TrimRight(_)
TrimRight(s) ==
  IF s # <<>> /\ IsSpace(s[Len(s)]) THEN TrimRight(SubSeq(s, 1, Len(s) - 1)) ELSE s

TrimSpace(s) == TrimRight(TrimLeft(s))

\* index of the first occurrence of ch in s, 0 when there is none
IndexOf(s, ch) ==
  IF Contains(s, ch) THEN CHOOSE i \in 1..Len(s) : s[i] = ch /\ \A j \in 1..(i - 1) : s[j] # ch
  ELSE 0

\* strings.SplitN(s, " ", n) for n >= 1
RECURSIVE SplitN(_, _)
SplitN(s, n) ==
  IF n <= 1 \/ IndexOf(s, " ") = 0 THEN <<s>>
  ELSE <<SubSeq(s, 1, IndexOf(s, " ") - 1)>> \o SplitN(SubSeq(s, IndexOf(s, " ") + 1, Len(s)), n - 1)

\* func cleanLine(s string) string
cleanLine(s) ==
  LET t == TrimSpace(ReplaceAllCR(s))
      parts == SplitN(t, 2)
      cmd == TrimSpace(parts[1])
  IN IF t = <<>> THEN <<>>
     ELSE IF Len(parts) = 1 THEN cmd
     ELSE cmd \o <<" ">> \o TrimSpace(parts[2])

(***************************************************************************)
(* The literal strings of the protocol.                                    *)
(***************************************************************************)
NL == <<"\n">>
LOGIN_ == <<"L", "O", "G", "I", "N", " ">>
MSG_ == <<"M", "S", "G", " ">>
DM_ == <<"D", "M", " ">>
WHO == <<"W", "H", "O">>
PING == <<"P", "I", "N", "G">>
PONG == <<"P", "O", "N", "G">>
OK == <<"O", "K">>
USER_ == <<"U", "S", "E", "R", " ">>
INFO_ == <<"I", "N", "F", "O", " ">>
\* " disconnected"
DISCONNECTED ==
  <<" ", "d", "i", "s", "c", "o", "n", "n", "e", "c", "t", "e", "d">>
\* "INFO disconnected due to inactivity"
INFO_IDLE ==
  <<"I", "N", "F", "O", " ", "d", "i", "s", "c", "o", "n", "n", "e", "c", "t", "e", "d", " ", "d", "u", "e", " ", "t", "o", " ", "i", "n", "a", "c", "t", "i", "v", "i", "t", "y">>
\* "ERR expected 'LOGIN <username>'"
ERR_EXPECTED ==
  <<"E", "R", "R", " ", "e", "x", "p", "e", "c", "t", "e", "d", " ", "'", "L", "O", "G", "I", "N", " ", "<", "u", "s", "e", "r", "n", "a", "m", "e", ">", "'">>
\* "ERR invalid-username"
ERR_INVALID ==
  <<"E", "R", "R", " ", "i", "n", "v", "a", "l", "i", "d", "-", "u", "s", "e", "r", "n", "a", "m", "e">>
\* "ERR username-taken"
ERR_TAKEN ==
  <<"E", "R", "R", " ", "u", "s", "e", "r", "n", "a", "m", "e", "-", "t", "a", "k", "e", "n">>
\* "ERR usage: DM <username> <text>"
ERR_USAGE ==
  <<"E", "R", "R", " ", "u", "s", "a", "g", "e", ":", " ", "D", "M", " ", "<", "u", "s", "e", "r", "n", "a", "m", "e", ">", " ", "<", "t", "e", "x", "t", ">">>
\* "ERR user-not-found"
ERR_NOT_FOUND ==
  <<"E", "R", "R", " ", "u", "s", "e", "r", "-", "n", "o", "t", "-", "f", "o", "u", "n", "d">>
\* "ERR unknown-cmd"
ERR_UNKNOWN ==
  <<"E", "R", "R", " ", "u", "n", "k", "n", "o", "w", "n", "-", "c", "m", "d">>
DM_TO_ == <<"D", "M", " ", "t", "o", " ">>
COLON_ == <<":", " ">>

\* fmt.Sprintf("MSG %s %s", client.username, text)
MsgLine(name, text) == MSG_ \o name \o <<" ">> \o text
\* fmt.Sprintf("DM %s %s", client.username, messageText)
DmLine(name, text) == DM_ \o name \o <<" ">> \o text
\* fmt.Sprintf("DM to %s: %s\n", targetName, messageText), without the newline
DmEcho(target, text) == DM_TO_ \o target \o COLON_ \o text
\* fmt.Sprintf("INFO %s disconnected", client.username)
InfoLine(name) == INFO_ \o name \o DISCONNECTED
\* fmt.Sprintf("USER %s\n", c.username), without the newline
UserLine(name) == USER_ \o name

(***************************************************************************)
(* What the clients send.  A raw line is what reader.Text() returns, before *)
(* cleanLine.                                                               *)
(***************************************************************************)
HandleA == <<"a">>
HandleB == <<"b">>
HandleC == <<"c">>
TextX == <<"x">>
TextY == <<"y">>

InputLines ==
  { LOGIN_ \o HandleA,
    LOGIN_ \o HandleB,
    <<"l", "o", "g", "i", "n", " ">> \o HandleC \o <<"\r">>,
    LOGIN_ \o <<"a", " ", "b">>,
    LOGIN_ \o <<"a", "\t", "b">>,
    LOGIN_,
    MSG_ \o TextX,
    <<" ", "m", "s", "g", " ", " ">> \o TextY \o <<" ">>,
    MSG_ \o <<" ">>,
    WHO,
    PING,
    DM_ \o HandleB \o <<" ">> \o TextX,
    DM_ \o HandleA \o <<" ", " ">> \o TextY,
    DM_ \o HandleC,
    DM_,
    <<"F", "O", "O">>,
    <<" ", "\r">>,
    <<>> }

\* the lines of an ordinary conversation
ChatLines ==
  { LOGIN_ \o HandleA,
    LOGIN_ \o HandleB,
    <<"l", "o", "g", "i", "n", " ">> \o HandleC \o <<"\r">>,
    MSG_ \o TextX,
    <<" ", "m", "s", "g", " ", " ">> \o TextY \o <<" ">>,
    WHO,
    PING,
    DM_ \o HandleB \o <<" ">> \o TextX,
    DM_ \o HandleA \o <<" ", " ">> \o TextY,
    <<>> }

(***************************************************************************)
(* State.                                                                   *)
(***************************************************************************)
VARIABLES
  users,     \* Hub.users: username -> the connection whose Client is registered
  rlock,     \* the connections that hold hub.mu.RLock
  pc,        \* where each handleConn goroutine is
  line,      \* the cleaned line the command loop is working on
  username,  \* Client.username of each connection (<<>> before its Client exists)
  out,       \* Client.out: the buffered channel of outbound lines
  todo,      \* the Clients a running range over h.users has still to visit
  cur,       \* the line a dispatcher is broadcasting, sending or about to write
  target,    \* the Client a DM is being sent to
  sender,    \* the sender argument of the running hub.broadcast
  ret,       \* where hub.broadcast returns to: the read loop or the return of handleConn
  echo,      \* the confirmation line a DM writes back to its sender
  wpc,       \* where each clientWriter goroutine is
  wline,     \* the line a clientWriter has received and not yet written
  stream,    \* lines written to conn that the client has not read yet
  closed,    \* conn.Close() has been called
  eof,       \* the client has closed its end
  stalled,   \* the client has stopped reading: writes to conn wait
  now,       \* the time
  active,    \* the idle timer is running (armed and not yet expired or stopped)
  deadline,  \* when the running idle timer expires
  armedAt,   \* when the idle timer was last armed (NewTimer or Reset)
  tchan,     \* a value is waiting in idleTimer.C
  mon,       \* where the goroutine that waits on idleTimer.C is
  events,    \* what the clients have done so far: lines sent, connections closed
  sent,      \* the line each client sent last, as sent, where a specification records it
  nRemove,   \* calls of hub.removeUser made by each handleConn
  nNotice,   \* "INFO <name> disconnected" broadcasts made by each handleConn
  got,       \* the Clients whose channel took the line of the running hub.broadcast
  listed     \* the lines the running WHO has written so far

vars ==
  <<users, rlock, pc, line, username, out, todo, cur, target, sender, ret, echo, wpc,
    wline, stream, closed, eof, stalled, now, active, deadline, armedAt, tchan, mon,
    events, sent, nRemove, nNotice, got, listed>>

hubVars == <<users, rlock>>
timerVars == <<now, active, deadline, armedAt, tchan, mon>>
connVars == <<closed, eof, stalled>>
ghostVars == <<nRemove, nNotice, got, listed>>
writerVars == <<wpc, wline>>
localVars == <<line, todo, cur, target, sender, ret, echo>>

\* hub := NewHub(); every accepted connection starts handleConn, blocked in
\* its first reader.Scan()
Init ==
  /\ users = <<>>
  /\ rlock = {}
  /\ pc = [c \in Conns |-> "login"]
  /\ username = [c \in Conns |-> <<>>]
  /\ out = [c \in Conns |-> <<>>]
  /\ todo = [c \in Conns |-> {}]
  /\ cur = [c \in Conns |-> <<>>]
  /\ target = [c \in Conns |-> NoConn]
  /\ sender = [c \in Conns |-> <<>>]
  /\ ret = [c \in Conns |-> "read"]
  /\ echo = [c \in Conns |-> <<>>]
  /\ wpc = [c \in Conns |-> "none"]
  /\ stream = [c \in Conns |-> <<>>]
  /\ closed = [c \in Conns |-> FALSE]
  /\ eof = [c \in Conns |-> FALSE]
  /\ active = [c \in Conns |-> FALSE]
  /\ stalled = [c \in Conns |-> FALSE]
  /\ now = 0
  /\ deadline = [c \in Conns |-> 0]
  /\ armedAt = [c \in Conns |-> 0]
  /\ tchan = [c \in Conns |-> FALSE]
  /\ mon = [c \in Conns |-> "none"]
  /\ events = 0
  /\ sent = [c \in Conns |-> <<>>]
  /\ nRemove = [c \in Conns |-> 0]
  /\ nNotice = [c \in Conns |-> 0]
  /\ got = [c \in Conns |-> {}]
  /\ listed = [c \in Conns |-> <<>>]
  /\ line = [c \in Conns |-> <<>>]
  /\ wline = [c \in Conns |-> <<>>]

(***************************************************************************)
(* Helpers.                                                                 *)
(***************************************************************************)
\* the Clients stored in h.users
Clients == {users[h] : h \in DOMAIN users}

\* h.users[name] = c
MapPut(m, name, c) == [h \in DOMAIN m \cup {name} |-> IF h = name THEN c ELSE m[h]]

\* delete(h.users, name)
MapDelete(m, name) == [h \in DOMAIN m \ {name} |-> m[h]]

\* A write to conn returns at once when the connection is closed (with an
\* error that fmt.Fprintln's callers ignore) and otherwise waits until the
\* client's end takes the bytes.
CanWrite(c) == closed[c] \/ eof[c] \/ ~stalled[c]

\* fmt.Fprintln(conn, s)
Fprintln(c, s) ==
  stream' = IF closed[c] \/ eof[c] THEN stream
            ELSE [stream EXCEPT ![c] = Append(@, s \o NL)]

\* a send that puts s at the head of the channel: what TrySend must not be
TrySendFront(d, s) ==
  out' = IF Len(out[d]) < MailboxCap THEN [out EXCEPT ![d] = <<s>> \o @] ELSE out

\* a send that waits for room, c.out <- s: what TrySend must not be
TrySendWait(d, s) ==
  /\ Len(out[d]) < MailboxCap
  /\ out' = [out EXCEPT ![d] = Append(@, s)]

\* select { case c.out <- s: default: }
TrySend(d, s) ==
  out' = IF Len(out[d]) < MailboxCap THEN [out EXCEPT ![d] = Append(@, s)] ELSE out

\* resetTimer(d): Stop, drain idleTimer.C when Stop reports the timer was not
\* running, Reset
resetTimer(c, d) ==
  /\ tchan' = [tchan EXCEPT ![c] = IF active[c] THEN @ ELSE FALSE]
  /\ active' = [active EXCEPT ![c] = TRUE]
  /\ deadline' = [deadline EXCEPT ![c] = now + d]
  /\ armedAt' = [armedAt EXCEPT ![c] = now]

\* h.mu.RLock() and the start of "for _, c := range h.users" in hub.broadcast
StartBroadcast(c, from, s, back) ==
  /\ rlock' = rlock \cup {c}
  /\ todo' = [todo EXCEPT ![c] = Clients]
  /\ sender' = [sender EXCEPT ![c] = from]
  /\ cur' = [cur EXCEPT ![c] = s]
  /\ ret' = [ret EXCEPT ![c] = back]
  /\ pc' = [pc EXCEPT ![c] = "bcast"]

\* a direct reply of the dispatcher: s is written by the next step
StartReply(c, s) ==
  /\ cur' = [cur EXCEPT ![c] = s]
  /\ pc' = [pc EXCEPT ![c] = "reply"]

\* handleConn returns before a Client is registered: the deferred conn.Close()
Reject(c, s) ==
  /\ Fprintln(c, s)
  /\ closed' = [closed EXCEPT ![c] = TRUE]
  /\ pc' = [pc EXCEPT ![c] = "done"]

(***************************************************************************)
(* handleConn: the LOGIN flow.                                              *)
(***************************************************************************)
\* the first reader.Scan() returns a line
Login(c, raw) ==
  /\ pc[c] = "login"
  /\ ~eof[c]
  /\ LET first == cleanLine(raw)
         name == TrimSpace(SubSeq(first, Len(LOGIN_) + 1, Len(first)))
     IN IF ~HasPrefix(ToUpper(first), LOGIN_)
        THEN Reject(c, ERR_EXPECTED) /\ UNCHANGED username
        ELSE IF name = <<>> \/ Contains(name, " ")
        THEN Reject(c, ERR_INVALID) /\ UNCHANGED username
        ELSE /\ username' = [username EXCEPT ![c] = name]
             /\ pc' = [pc EXCEPT ![c] = "adduser"]
             /\ UNCHANGED <<stream, closed>>
  /\ UNCHANGED <<hubVars, localVars, out, writerVars, eof, stalled, timerVars, ghostVars>>

\* the first reader.Scan() fails: the client closed before sending a line
LoginEOF(c) ==
  /\ pc[c] = "login"
  /\ eof[c]
  /\ closed' = [closed EXCEPT ![c] = TRUE]
  /\ pc' = [pc EXCEPT ![c] = "done"]
  /\ UNCHANGED <<hubVars, localVars, username, out, writerVars, stream, eof, stalled,
                 timerVars, events, sent, ghostVars>>

\* an addUser without the "exists" test: what addUser must not be
addUserOverwrite(c) ==
  /\ pc[c] = "adduser"
  /\ rlock = {}
  /\ users' = MapPut(users, username[c], c)
  /\ pc' = [pc EXCEPT ![c] = "ok"]
  /\ UNCHANGED <<rlock, localVars, username, out, writerVars, stream, connVars,
                 timerVars, events, sent, ghostVars>>

\* an addUser that does not wait for the readers of h.mu: what addUser must
\* not be
addUserUnlocked(c) ==
  /\ pc[c] = "adduser"
  /\ IF username[c] \in DOMAIN users
     THEN Reject(c, ERR_TAKEN) /\ UNCHANGED users
     ELSE /\ users' = MapPut(users, username[c], c)
          /\ pc' = [pc EXCEPT ![c] = "ok"]
          /\ UNCHANGED <<stream, closed>>
  /\ UNCHANGED <<rlock, localVars, username, out, writerVars, eof, stalled, timerVars,
                 events, sent, ghostVars>>

\* an addUser after which the clientWriter already runs: what the order of
\* handleConn must not be
addUserStartsWriter(c) ==
  /\ pc[c] = "adduser"
  /\ rlock = {}
  /\ IF username[c] \in DOMAIN users
     THEN Reject(c, ERR_TAKEN) /\ UNCHANGED <<users, wpc>>
     ELSE /\ users' = MapPut(users, username[c], c)
          /\ pc' = [pc EXCEPT ![c] = "ok"]
          /\ wpc' = [wpc EXCEPT ![c] = "run"]
          /\ UNCHANGED <<stream, closed>>
  /\ UNCHANGED <<rlock, localVars, username, out, wline, eof, stalled, timerVars,
                 events, sent, ghostVars>>

\* hub.addUser(client) under h.mu.Lock(), and the return on "username taken"
addUser(c) ==
  /\ pc[c] = "adduser"
  /\ rlock = {}
  /\ IF username[c] \in DOMAIN users
     THEN Reject(c, ERR_TAKEN) /\ UNCHANGED users
     ELSE /\ users' = MapPut(users, username[c], c)
          /\ pc' = [pc EXCEPT ![c] = "ok"]
          /\ UNCHANGED <<stream, closed>>
  /\ UNCHANGED <<rlock, localVars, username, out, writerVars, eof, stalled, timerVars,
                 events, sent, ghostVars>>

\* fmt.Fprintln(conn, "OK"); go clientWriter; idleTimer := time.NewTimer(60s);
\* go func() { <-idleTimer.C ... }()
LoginOK(c) ==
  /\ pc[c] = "ok"
  /\ Fprintln(c, OK)
  /\ wpc' = [wpc EXCEPT ![c] = "run"]
  /\ active' = [active EXCEPT ![c] = TRUE]
  /\ deadline' = [deadline EXCEPT ![c] = now + IdleTimeout]
  /\ armedAt' = [armedAt EXCEPT ![c] = now]
  /\ mon' = [mon EXCEPT ![c] = "wait"]
  /\ pc' = [pc EXCEPT ![c] = "read"]
  /\ UNCHANGED <<hubVars, localVars, username, out, wline, connVars, now, tchan,
                 events, sent, ghostVars>>

(***************************************************************************)
(* handleConn: the command loop.                                            *)
(***************************************************************************)
\* case strings.HasPrefix(upper, "DM "): up to the lookup of the target
DmCommand(c, cmd) ==
  LET parts == SplitN(cmd, 3)
      targetName == TrimSpace(parts[2])
      messageText == TrimSpace(parts[3])
  IN IF Len(parts) < 3
     THEN StartReply(c, ERR_USAGE) /\ UNCHANGED <<target, echo>>
     ELSE IF targetName = <<>> \/ messageText = <<>>
     THEN StartReply(c, ERR_USAGE) /\ UNCHANGED <<target, echo>>
     ELSE IF targetName \notin DOMAIN users
     THEN StartReply(c, ERR_NOT_FOUND) /\ UNCHANGED <<target, echo>>
     ELSE /\ target' = [target EXCEPT ![c] = users[targetName]]
          /\ cur' = [cur EXCEPT ![c] = DmLine(username[c], messageText)]
          /\ echo' = [echo EXCEPT ![c] = DmEcho(targetName, messageText)]
          /\ pc' = [pc EXCEPT ![c] = "dmsend"]

\* the switch of the command loop on a line that is not blank
Dispatch(c, cmd) ==
  LET upper == ToUpper(cmd)
      text == TrimSpace(SubSeq(cmd, Len(MSG_) + 1, Len(cmd)))
  IN IF HasPrefix(upper, MSG_)
     THEN IF text = <<>>
          THEN UNCHANGED <<rlock, pc, line, todo, cur, target, sender, ret, echo>>
          ELSE /\ StartBroadcast(c, username[c], MsgLine(username[c], text), "read")
               /\ line' = [line EXCEPT ![c] = cmd]
               /\ UNCHANGED <<target, echo>>
     ELSE /\ line' = [line EXCEPT ![c] = cmd]
          /\ IF upper = WHO
             THEN /\ rlock' = rlock \cup {c}
                  /\ todo' = [todo EXCEPT ![c] = Clients]
                  /\ pc' = [pc EXCEPT ![c] = "who"]
                  /\ UNCHANGED <<cur, target, sender, ret, echo>>
             ELSE IF upper = PING
             THEN StartReply(c, PONG) /\ UNCHANGED <<rlock, todo, target, sender, ret, echo>>
             ELSE IF HasPrefix(upper, DM_)
             THEN DmCommand(c, cmd) /\ UNCHANGED <<rlock, todo, sender, ret>>
             ELSE StartReply(c, ERR_UNKNOWN) /\ UNCHANGED <<rlock, todo, target, sender, ret, echo>>

\* reader.Scan() returns a line in the command loop: everything up to the
\* point where the dispatcher next waits (for a lock, a channel or the stream)
Read(c, raw) ==
  /\ pc[c] = "read"
  /\ ~closed[c]
  /\ ~eof[c]
  /\ IF cleanLine(raw) = <<>>
     THEN UNCHANGED <<rlock, pc, localVars, active, deadline, armedAt, tchan>>
     ELSE /\ resetTimer(c, IdleTimeout)
          /\ Dispatch(c, cleanLine(raw))
  /\ UNCHANGED <<users, username, out, writerVars, stream, connVars, now, mon, ghostVars>>

\* one iteration of the loop of hub.broadcast
BroadcastStep(c) ==
  /\ pc[c] = "bcast"
  /\ \E d \in todo[c] :
       /\ todo' = [todo EXCEPT ![c] = @ \ {d}]
       /\ IF sender[c] # <<>> /\ username[d] = sender[c]
          THEN out' = out
          ELSE TrySend(d, cur[c])
  /\ got' = [got EXCEPT ![c] = @ \cup {d \in Conns : out'[d] # out[d]}]
  /\ UNCHANGED <<hubVars, pc, line, cur, target, sender, ret, echo, username,
                 writerVars, stream, connVars, timerVars, events, sent, nRemove, nNotice,
                 listed>>

\* the loop of hub.broadcast is over: h.mu.RUnlock() and return, to the
\* command loop or, in the deferred teardown, to the deferred conn.Close()
BroadcastEnd(c) ==
  /\ pc[c] = "bcast"
  /\ todo[c] = {}
  /\ rlock' = rlock \ {c}
  /\ IF ret[c] = "close"
     THEN /\ closed' = [closed EXCEPT ![c] = TRUE]
          /\ pc' = [pc EXCEPT ![c] = "done"]
     ELSE /\ closed' = closed
          /\ pc' = [pc EXCEPT ![c] = "read"]
  /\ line' = [line EXCEPT ![c] = <<>>]
  /\ cur' = [cur EXCEPT ![c] = <<>>]
  /\ sender' = [sender EXCEPT ![c] = <<>>]
  /\ ret' = [ret EXCEPT ![c] = "read"]
  /\ got' = [got EXCEPT ![c] = {}]
  /\ UNCHANGED <<users, todo, target, echo, username, out, writerVars, stream, eof,
                 stalled, timerVars, events, sent, nRemove, nNotice, listed>>

\* case upper == "WHO": one iteration, fmt.Fprintf(conn, "USER %s\n", c.username)
WhoStep(c) ==
  /\ pc[c] = "who"
  /\ CanWrite(c)
  /\ \E d \in todo[c] :
       /\ todo' = [todo EXCEPT ![c] = @ \ {d}]
       /\ Fprintln(c, UserLine(username[d]))
       /\ listed' = [listed EXCEPT ![c] = Append(@, UserLine(username[d]))]
  /\ UNCHANGED <<hubVars, pc, line, cur, target, sender, ret, echo, username, out,
                 writerVars, connVars, timerVars, events, sent, nRemove, nNotice, got>>

\* case upper == "WHO": hub.mu.RUnlock(), then back to reader.Scan()
WhoEnd(c) ==
  /\ pc[c] = "who"
  /\ todo[c] = {}
  /\ rlock' = rlock \ {c}
  /\ pc' = [pc EXCEPT ![c] = "read"]
  /\ line' = [line EXCEPT ![c] = <<>>]
  /\ listed' = [listed EXCEPT ![c] = <<>>]
  /\ UNCHANGED <<users, todo, cur, target, sender, ret, echo, username, out,
                 writerVars, stream, connVars, timerVars, events, sent, nRemove, nNotice,
                 got>>

\* a DM that goes to every channel: what DmSend must not be
DmSendAll(c) ==
  /\ pc[c] = "dmsend"
  /\ \A d \in Conns : Len(out[d]) < MailboxCap
  /\ out' = [d \in Conns |-> Append(out[d], cur[c])]
  /\ cur' = [cur EXCEPT ![c] = echo[c]]
  /\ echo' = [echo EXCEPT ![c] = <<>>]
  /\ target' = [target EXCEPT ![c] = NoConn]
  /\ pc' = [pc EXCEPT ![c] = "reply"]
  /\ UNCHANGED <<hubVars, line, todo, sender, ret, username, writerVars, stream,
                 connVars, timerVars, events, sent, ghostVars>>

\* target.out <- fmt.Sprintf("DM %s %s", ...): a send that waits for room
DmSend(c) ==
  /\ pc[c] = "dmsend"
  /\ Len(out[target[c]]) < MailboxCap
  /\ out' = [out EXCEPT ![target[c]] = Append(@, cur[c])]
  /\ cur' = [cur EXCEPT ![c] = echo[c]]
  /\ echo' = [echo EXCEPT ![c] = <<>>]
  /\ target' = [target EXCEPT ![c] = NoConn]
  /\ pc' = [pc EXCEPT ![c] = "reply"]
  /\ UNCHANGED <<hubVars, line, todo, sender, ret, username, writerVars, stream,
                 connVars, timerVars, events, sent, ghostVars>>

\* fmt.Fprintln(conn, ...) of a reply, then back to reader.Scan()
Reply(c) ==
  /\ pc[c] = "reply"
  /\ CanWrite(c)
  /\ Fprintln(c, cur[c])
  /\ cur' = [cur EXCEPT ![c] = <<>>]
  /\ line' = [line EXCEPT ![c] = <<>>]
  /\ pc' = [pc EXCEPT ![c] = "read"]
  /\ UNCHANGED <<hubVars, todo, target, sender, ret, echo, username, out,
                 writerVars, connVars, timerVars, events, sent, ghostVars>>

(***************************************************************************)
(* handleConn: the deferred teardown.                                       *)
(***************************************************************************)
\* a teardown that broadcasts the notice without hub.removeUser: what the
\* deferred function must not be
ReadFailNotify(c) ==
  /\ pc[c] = "read"
  /\ closed[c] \/ eof[c]
  /\ pc' = [pc EXCEPT ![c] = "notify"]
  /\ UNCHANGED <<hubVars, localVars, username, out, writerVars, stream, connVars,
                 timerVars, events, sent, ghostVars>>

\* reader.Scan() fails in the command loop: the connection is closed
ReadFail(c) ==
  /\ pc[c] = "read"
  /\ closed[c] \/ eof[c]
  /\ pc' = [pc EXCEPT ![c] = "remove"]
  /\ UNCHANGED <<hubVars, localVars, username, out, writerVars, stream, connVars,
                 timerVars, events, sent, ghostVars>>

\* a removeUser that deletes nothing: what removeUser must not be
removeUserKeep(c) ==
  /\ pc[c] = "remove"
  /\ rlock = {}
  /\ users' = users
  /\ nRemove' = [nRemove EXCEPT ![c] = @ + 1]
  /\ pc' = [pc EXCEPT ![c] = "notify"]
  /\ UNCHANGED <<rlock, localVars, username, out, writerVars, stream, connVars,
                 timerVars, events, sent, nNotice, got, listed>>

\* a removeUser that empties the registry: what removeUser must not be
removeUserAll(c) ==
  /\ pc[c] = "remove"
  /\ rlock = {}
  /\ users' = <<>>
  /\ nRemove' = [nRemove EXCEPT ![c] = @ + 1]
  /\ pc' = [pc EXCEPT ![c] = "notify"]
  /\ UNCHANGED <<rlock, localVars, username, out, writerVars, stream, connVars,
                 timerVars, events, sent, nNotice, got, listed>>

\* hub.removeUser(client.username) under h.mu.Lock()
removeUser(c) ==
  /\ pc[c] = "remove"
  /\ rlock = {}
  /\ users' = MapDelete(users, username[c])
  /\ nRemove' = [nRemove EXCEPT ![c] = @ + 1]
  /\ pc' = [pc EXCEPT ![c] = "notify"]
  /\ UNCHANGED <<rlock, localVars, username, out, writerVars, stream, connVars,
                 timerVars, events, sent, nNotice, got, listed>>

\* hub.broadcast("", fmt.Sprintf("INFO %s disconnected", client.username))
Notify(c) ==
  /\ pc[c] = "notify"
  /\ StartBroadcast(c, <<>>, InfoLine(username[c]), "close")
  /\ nNotice' = [nNotice EXCEPT ![c] = @ + 1]
  /\ UNCHANGED <<users, line, target, echo, username, out, writerVars, stream,
                 connVars, timerVars, events, sent, nRemove, got, listed>>

(***************************************************************************)
(* clientWriter.                                                            *)
(***************************************************************************)
\* case line, ok := <-c.out
WriterRecv(c) ==
  /\ wpc[c] = "run"
  /\ out[c] # <<>>
  /\ wline' = [wline EXCEPT ![c] = Head(out[c])]
  /\ out' = [out EXCEPT ![c] = Tail(@)]
  /\ wpc' = [wpc EXCEPT ![c] = "flush"]
  /\ UNCHANGED <<hubVars, pc, localVars, username, stream, connVars, timerVars,
                 events, sent, ghostVars>>

\* the line as clientWriter writes it
WriterLine(s) == IF HasSuffix(s, NL) THEN s ELSE s \o NL

\* w.WriteString(line); w.Flush(): the loop goes on after a write that
\* succeeded and returns after one that failed.  A write to a connection that
\* the server closed fails; one to a connection that the client closed may
\* fail; one to an open connection waits until the client takes the bytes.
WriterFlush(c) ==
  /\ wpc[c] = "flush"
  /\ \/ /\ closed[c] \/ eof[c]
        /\ wpc' = [wpc EXCEPT ![c] = "exit"]
        /\ stream' = stream
     \/ /\ ~closed[c]
        /\ eof[c]
        /\ wpc' = [wpc EXCEPT ![c] = "run"]
        /\ stream' = stream
     \/ /\ ~closed[c]
        /\ ~eof[c]
        /\ ~stalled[c]
        /\ wpc' = [wpc EXCEPT ![c] = "run"]
        /\ stream' = [stream EXCEPT ![c] = Append(@, WriterLine(wline[c]))]
  /\ wline' = [wline EXCEPT ![c] = <<>>]
  /\ UNCHANGED <<hubVars, pc, localVars, username, out, connVars, timerVars, events, sent,
                 ghostVars>>

(***************************************************************************)
(* The idle timer and the goroutine that waits on it.                       *)
(***************************************************************************)
\* time passes
Tick ==
  /\ now < MaxTime
  /\ now' = now + TickLen
  /\ UNCHANGED <<hubVars, pc, localVars, username, out, writerVars, stream, connVars,
                 active, deadline, armedAt, tchan, mon, events, sent, ghostVars>>

\* the running timer expires: the runtime sends the time on idleTimer.C
TimerExpire(c) ==
  /\ active[c]
  /\ now >= deadline[c]
  /\ active' = [active EXCEPT ![c] = FALSE]
  /\ tchan' = [tchan EXCEPT ![c] = TRUE]
  /\ UNCHANGED <<hubVars, pc, localVars, username, out, writerVars, stream, connVars,
                 now, deadline, armedAt, mon, events, sent, ghostVars>>

\* <-idleTimer.C
MonitorRecv(c) ==
  /\ mon[c] = "wait"
  /\ tchan[c]
  /\ tchan' = [tchan EXCEPT ![c] = FALSE]
  /\ mon' = [mon EXCEPT ![c] = "fired"]
  /\ UNCHANGED <<hubVars, pc, localVars, username, out, writerVars, stream, connVars,
                 now, active, deadline, armedAt, events, sent, ghostVars>>

\* fmt.Fprintln(conn, "INFO disconnected due to inactivity"); conn.Close()
MonitorClose(c) ==
  /\ mon[c] = "fired"
  /\ CanWrite(c)
  /\ Fprintln(c, INFO_IDLE)
  /\ closed' = [closed EXCEPT ![c] = TRUE]
  /\ mon' = [mon EXCEPT ![c] = "done"]
  /\ UNCHANGED <<hubVars, pc, localVars, username, out, writerVars, eof, stalled,
                 now, active, deadline, armedAt, tchan, events, sent, ghostVars>>

(***************************************************************************)
(* The clients.                                                             *)
(***************************************************************************)
\* the client reads one line from its end of the connection
ClientRecv(c) ==
  /\ stream[c] # <<>>
  /\ stream' = [stream EXCEPT ![c] = Tail(@)]
  /\ UNCHANGED <<hubVars, pc, localVars, username, out, writerVars, connVars,
                 timerVars, events, sent, ghostVars>>

\* the client closes its end of the connection
ClientClose(c) ==
  /\ ~eof[c]
  /\ pc[c] # "done"
  /\ events < MaxEvents
  /\ events' = events + 1
  /\ sent' = sent
  /\ eof' = [eof EXCEPT ![c] = TRUE]
  /\ UNCHANGED <<hubVars, pc, localVars, username, out, writerVars, stream, closed,
                 stalled, timerVars, ghostVars>>

\* the client stops reading from its end of the connection; the socket
\* buffers take what the server writes before the login is over
ClientStall(c) ==
  /\ ~stalled[c]
  /\ ~eof[c]
  /\ wpc[c] # "none"
  /\ pc[c] # "done"
  /\ stalled' = [stalled EXCEPT ![c] = TRUE]
  /\ UNCHANGED <<hubVars, pc, localVars, username, out, writerVars, stream, closed,
                 eof, timerVars, events, sent, ghostVars>>

\* the client sends one of lines, which the dispatcher reads
ClientSend(c, lines) ==
  /\ events < MaxEvents
  /\ events' = events + 1
  /\ sent' = sent
  /\ \E raw \in lines : Login(c, raw) \/ Read(c, raw)

\* no line is on its way to a client
Quiet == \A c \in Conns : stream[c] = <<>>

(***************************************************************************)
(* Spec: three clients hold a conversation of MaxEvents lines and           *)
(* disconnections within the first minute, so that no idle timer expires.   *)
(* A client takes each line as soon as it is written: a written line is in  *)
(* stream for one state.                                                    *)
(***************************************************************************)
Next ==
  \/ \E c \in Conns : ClientRecv(c)
  \/ \E c \in Conns : Quiet /\ ClientSend(c, ChatLines)
  \/ \E c \in Conns : Quiet /\ ClientClose(c)
  \/ \E c \in Conns : Quiet /\ LoginEOF(c)
  \/ \E c \in Conns : Quiet /\ addUser(c)
  \/ \E c \in Conns : Quiet /\ LoginOK(c)
  \/ \E c \in Conns : Quiet /\ BroadcastStep(c)
  \/ \E c \in Conns : Quiet /\ BroadcastEnd(c)
  \/ \E c \in Conns : Quiet /\ WhoStep(c)
  \/ \E c \in Conns : Quiet /\ WhoEnd(c)
  \/ \E c \in Conns : Quiet /\ DmSend(c)
  \/ \E c \in Conns : Quiet /\ Reply(c)
  \/ \E c \in Conns : Quiet /\ ReadFail(c)
  \/ \E c \in Conns : Quiet /\ removeUser(c)
  \/ \E c \in Conns : Quiet /\ Notify(c)
  \/ \E c \in Conns : Quiet /\ WriterRecv(c)
  \/ \E c \in Conns : Quiet /\ WriterFlush(c)

Spec == Init /\ [][Next]_vars

(***************************************************************************)
(* SpecIdle: the same conversation, of fewer kinds of line, while time      *)
(* passes: idle timers expire and the goroutines that wait on them close    *)
(* connections, in any order with the clients' MaxIdleEvents lines and      *)
(* disconnections.                                                          *)
(***************************************************************************)
IdleLines ==
  { LOGIN_ \o HandleA,
    LOGIN_ \o HandleB,
    MSG_ \o TextX,
    PING,
    <<>> }

IdleNext ==
  \/ \E c \in Conns : ClientRecv(c)
  \/ \E c \in Conns : Quiet /\ events < MaxIdleEvents /\ ClientSend(c, IdleLines)
  \/ \E c \in Conns : Quiet /\ events < MaxIdleEvents /\ ClientClose(c)
  \/ Quiet /\ Tick
  \/ \E c \in Conns : Quiet /\ LoginEOF(c)
  \/ \E c \in Conns : Quiet /\ addUser(c)
  \/ \E c \in Conns : Quiet /\ LoginOK(c)
  \/ \E c \in Conns : Quiet /\ BroadcastStep(c)
  \/ \E c \in Conns : Quiet /\ BroadcastEnd(c)
  \/ \E c \in Conns : Quiet /\ Reply(c)
  \/ \E c \in Conns : Quiet /\ ReadFail(c)
  \/ \E c \in Conns : Quiet /\ removeUser(c)
  \/ \E c \in Conns : Quiet /\ Notify(c)
  \/ \E c \in Conns : Quiet /\ WriterRecv(c)
  \/ \E c \in Conns : Quiet /\ WriterFlush(c)
  \/ \E c \in Conns : Quiet /\ TimerExpire(c)
  \/ \E c \in Conns : Quiet /\ MonitorRecv(c)
  \/ \E c \in Conns : Quiet /\ MonitorClose(c)

SpecIdle == Init /\ [][IdleNext]_vars

\* The Go scheduler runs every goroutine that can take a step, and a client
\* takes what is written to it.
IdleFair ==
  \A c \in Conns :
    /\ WF_vars(ClientRecv(c))
    /\ WF_vars(Quiet /\ LoginEOF(c))
    /\ WF_vars(Quiet /\ addUser(c))
    /\ WF_vars(Quiet /\ LoginOK(c))
    /\ WF_vars(Quiet /\ BroadcastStep(c))
    /\ WF_vars(Quiet /\ BroadcastEnd(c))
    /\ WF_vars(Quiet /\ Reply(c))
    /\ WF_vars(Quiet /\ ReadFail(c))
    /\ WF_vars(Quiet /\ removeUser(c))
    /\ WF_vars(Quiet /\ Notify(c))
    /\ WF_vars(Quiet /\ WriterRecv(c))
    /\ WF_vars(Quiet /\ WriterFlush(c))
    /\ WF_vars(Quiet /\ TimerExpire(c))
    /\ WF_vars(Quiet /\ MonitorRecv(c))
    /\ WF_vars(Quiet /\ MonitorClose(c))

SpecIdleFair == SpecIdle /\ IdleFair

(***************************************************************************)
(* SpecFlood: a client that does not read.  The first connection logs in as *)
(* a, the second as b, every other one as c.  a sends "MSG x" as often as   *)
(* it likes, each one after the clients that read have got the one before,  *)
(* and "DM b x" once the channel of b is full; the client of b may stop     *)
(* reading, and from then on every write to its connection waits.  Time     *)
(* passes once a waits in its DM.                                           *)
(***************************************************************************)
FloodHandle(c) == IF c = 1 THEN HandleA ELSE IF c = 2 THEN HandleB ELSE HandleC

FloodLogin(c) ==
  /\ Login(c, LOGIN_ \o FloodHandle(c))
  /\ UNCHANGED <<events, sent>>

FloodStall(c) ==
  /\ username[c] = HandleB
  /\ ClientStall(c)

FloodMsg(c) ==
  /\ username[c] = HandleA
  /\ \A d \in Conns : ~stalled[d] => out[d] = <<>> /\ wpc[d] # "flush"
  /\ Read(c, MSG_ \o TextX)
  /\ UNCHANGED <<events, sent>>

FloodDm(c) ==
  /\ username[c] = HandleA
  /\ \E d \in Conns : username[d] = HandleB /\ Len(out[d]) = MailboxCap
  /\ Read(c, DM_ \o HandleB \o <<" ">> \o TextX)
  /\ UNCHANGED <<events, sent>>

FloodTick ==
  /\ \E c \in Conns : pc[c] = "dmsend" /\ Len(out[target[c]]) = MailboxCap
  /\ Tick

FloodNext ==
  \/ \E c \in Conns : ClientRecv(c)
  \/ \E c \in Conns : Quiet /\ FloodLogin(c)
  \/ \E c \in Conns : Quiet /\ FloodStall(c)
  \/ \E c \in Conns : Quiet /\ FloodMsg(c)
  \/ \E c \in Conns : Quiet /\ FloodDm(c)
  \/ Quiet /\ FloodTick
  \/ \E c \in Conns : Quiet /\ addUser(c)
  \/ \E c \in Conns : Quiet /\ LoginOK(c)
  \/ \E c \in Conns : Quiet /\ BroadcastStep(c)
  \/ \E c \in Conns : Quiet /\ BroadcastEnd(c)
  \/ \E c \in Conns : Quiet /\ DmSend(c)
  \/ \E c \in Conns : Quiet /\ Reply(c)
  \/ \E c \in Conns : Quiet /\ ReadFail(c)
  \/ \E c \in Conns : Quiet /\ removeUser(c)
  \/ \E c \in Conns : Quiet /\ Notify(c)
  \/ \E c \in Conns : Quiet /\ WriterRecv(c)
  \/ \E c \in Conns : Quiet /\ WriterFlush(c)
  \/ \E c \in Conns : Quiet /\ TimerExpire(c)
  \/ \E c \in Conns : Quiet /\ MonitorRecv(c)
  \/ \E c \in Conns : Quiet /\ MonitorClose(c)

SpecFlood == Init /\ [][FloodNext]_vars

\* The Go scheduler runs every goroutine that can take a step, and a client
\* that has not stopped reading takes what is written to it.
FloodFair ==
  \A c \in Conns :
    /\ WF_vars(ClientRecv(c))
    /\ WF_vars(Quiet /\ addUser(c))
    /\ WF_vars(Quiet /\ LoginOK(c))
    /\ WF_vars(Quiet /\ BroadcastStep(c))
    /\ WF_vars(Quiet /\ BroadcastEnd(c))
    /\ WF_vars(Quiet /\ DmSend(c))
    /\ WF_vars(Quiet /\ Reply(c))
    /\ WF_vars(Quiet /\ ReadFail(c))
    /\ WF_vars(Quiet /\ removeUser(c))
    /\ WF_vars(Quiet /\ Notify(c))
    /\ WF_vars(Quiet /\ WriterRecv(c))
    /\ WF_vars(Quiet /\ WriterFlush(c))
    /\ WF_vars(Quiet /\ TimerExpire(c))
    /\ WF_vars(Quiet /\ MonitorRecv(c))
    /\ WF_vars(Quiet /\ MonitorClose(c))

SpecFloodFair == SpecFlood /\ FloodFair

(***************************************************************************)
(* SpecParse: the clients send MaxParseEvents lines of every shape, well    *)
(* formed or not, or disconnect; what each one sent last is recorded as     *)
(* sent.                                                                    *)
(***************************************************************************)
ParseSend(c) ==
  /\ events < MaxParseEvents
  /\ events' = events + 1
  /\ \E raw \in InputLines :
       /\ Login(c, raw) \/ Read(c, raw)
       /\ sent' = [sent EXCEPT ![c] = raw]

ParseNext ==
  \/ \E c \in Conns : ClientRecv(c)
  \/ \E c \in Conns : Quiet /\ ParseSend(c)
  \/ \E c \in Conns : Quiet /\ events < MaxParseEvents /\ ClientClose(c)
  \/ \E c \in Conns : Quiet /\ LoginEOF(c)
  \/ \E c \in Conns : Quiet /\ addUser(c)
  \/ \E c \in Conns : Quiet /\ LoginOK(c)
  \/ \E c \in Conns : Quiet /\ BroadcastStep(c)
  \/ \E c \in Conns : Quiet /\ BroadcastEnd(c)
  \/ \E c \in Conns : Quiet /\ WhoStep(c)
  \/ \E c \in Conns : Quiet /\ WhoEnd(c)
  \/ \E c \in Conns : Quiet /\ DmSend(c)
  \/ \E c \in Conns : Quiet /\ Reply(c)
  \/ \E c \in Conns : Quiet /\ ReadFail(c)
  \/ \E c \in Conns : Quiet /\ removeUser(c)
  \/ \E c \in Conns : Quiet /\ Notify(c)
  \/ \E c \in Conns : Quiet /\ WriterRecv(c)
  \/ \E c \in Conns : Quiet /\ WriterFlush(c)

SpecParse == Init /\ [][ParseNext]_vars

(***************************************************************************)
(* SpecStall: a conversation of MaxStallEvents lines and disconnections in  *)
(* which a client that has logged in may stop reading; from then on every   *)
(* write to its connection waits.                                           *)
(***************************************************************************)
StallLines ==
  { LOGIN_ \o HandleA,
    LOGIN_ \o HandleB,
    MSG_ \o TextX,
    WHO }

StallNext ==
  \/ \E c \in Conns : ClientRecv(c)
  \/ \E c \in Conns : Quiet /\ events < MaxStallEvents /\ ClientSend(c, StallLines)
  \/ \E c \in Conns : Quiet /\ events < MaxStallEvents /\ ClientClose(c)
  \/ \E c \in Conns : Quiet /\ ClientStall(c)
  \/ \E c \in Conns : Quiet /\ LoginEOF(c)
  \/ \E c \in Conns : Quiet /\ addUser(c)
  \/ \E c \in Conns : Quiet /\ LoginOK(c)
  \/ \E c \in Conns : Quiet /\ BroadcastStep(c)
  \/ \E c \in Conns : Quiet /\ BroadcastEnd(c)
  \/ \E c \in Conns : Quiet /\ WhoStep(c)
  \/ \E c \in Conns : Quiet /\ WhoEnd(c)
  \/ \E c \in Conns : Quiet /\ ReadFail(c)
  \/ \E c \in Conns : Quiet /\ removeUser(c)
  \/ \E c \in Conns : Quiet /\ Notify(c)
  \/ \E c \in Conns : Quiet /\ WriterRecv(c)
  \/ \E c \in Conns : Quiet /\ WriterFlush(c)

SpecStall == Init /\ [][StallNext]_vars

(***************************************************************************)
(* Properties of the registry, of broadcast, of DM and of WHO.              *)
(***************************************************************************)
Handles == {HandleA, HandleB, HandleC}

\* c is between a successful hub.addUser and its hub.removeUser
Holding(c) ==
  \/ pc[c] \in {"ok", "read", "who", "dmsend", "reply", "remove"}
  \/ pc[c] = "bcast" /\ ret[c] = "read"

\* c has been through hub.removeUser
Left(c) == nRemove[c] > 0

\* what fmt.Fprintln(conn, s) of connection c adds to the stream in this step
Wrote(c, s) == ~closed[c] /\ ~eof[c] => stream'[c] = Append(stream[c], s \o NL)

\* the lines "DM b x" and "DM a  y" as the command loop sees them, each with
\* its target and its text
DmCases ==
  { <<DM_ \o HandleB \o <<" ">> \o TextX, HandleB, TextX>>,
    <<DM_ \o HandleA \o <<" ", " ">> \o TextY, HandleA, TextY>> }

C1_Registry ==
  \A c \in Conns : Holding(c) => username[c] \in DOMAIN users /\ users[username[c]] = c

C1_Attempt ==
  \A c \in Conns :
    pc[c] = "adduser" /\ pc'[c] # "adduser" =>
      IF username[c] \in DOMAIN users
      THEN /\ pc'[c] = "done"
           /\ Wrote(c, ERR_TAKEN)
           /\ users' = users
           /\ out' = out
           /\ nRemove' = nRemove
           /\ nNotice' = nNotice
      ELSE /\ pc'[c] = "ok"
           /\ users' = MapPut(users, username[c], c)

C1_Terminated ==
  \A c \in Conns :
    pc[c] = "done" => pc'[c] = "done" /\ nRemove'[c] = nRemove[c] /\ nNotice'[c] = nNotice[c]

\* C1: a handle is held by at most one connection at a time, the one the
\* registry maps it to; a LOGIN with a registered handle is answered with
\* "ERR username-taken" and ends without touching the registry, unregistering
\* or broadcasting a notice; a LOGIN with a free handle registers it.
C1_LoginUnique == []C1_Registry /\ [][C1_Attempt /\ C1_Terminated]_vars

\* two handles are registered and a third LOGIN, with one of them, has just
\* been rejected
C1_Witness ==
  \E c \in Conns :
    /\ pc[c] = "done"
    /\ stream[c] = <<ERR_TAKEN \o NL>>
    /\ nRemove[c] = 0
    /\ username[c] \in DOMAIN users
    /\ users[username[c]] # c
    /\ Holding(users[username[c]])
    /\ Cardinality(DOMAIN users) = 2

C2_Delivered ==
  \A c \in Conns :
    pc[c] = "bcast" /\ todo[c] = {} /\ (\A d \in Conns : Len(out[d]) < MailboxCap) =>
      got[c] = {d \in Clients : sender[c] = <<>> \/ username[d] # sender[c]}

C2_Step ==
  \A c \in Conns :
    pc[c] = "bcast" /\ todo'[c] # todo[c] =>
      \E d \in todo[c] :
        /\ todo'[c] = todo[c] \ {d}
        /\ out' = IF sender[c] # <<>> /\ username[d] = sender[c] THEN out
                  ELSE IF Len(out[d]) < MailboxCap
                  THEN [out EXCEPT ![d] = Append(@, cur[c])]
                  ELSE out

C2_Fifo ==
  \A d \in Conns :
    \/ out'[d] = out[d]
    \/ out[d] # <<>> /\ out'[d] = Tail(out[d])
    \/ Len(out'[d]) = Len(out[d]) + 1 /\ SubSeq(out'[d], 1, Len(out[d])) = out[d]

\* C2: a broadcast appends its line to the mailbox of every registered Client
\* but the sender's (of every one when the sender is empty), mailboxes having
\* room; a mailbox only ever grows at its tail and shrinks at its head, so the
\* lines of successive broadcasts lie in it in the order of the calls.
C2_Broadcast == []C2_Delivered /\ [][C2_Step /\ C2_Fifo]_vars

\* a MSG of one of three registered Clients has reached the other two
C2_Witness ==
  \E c \in Conns :
    /\ pc[c] = "bcast"
    /\ todo[c] = {}
    /\ sender[c] = username[c]
    /\ Clients = Conns
    /\ got[c] = Conns \ {c}
    /\ \A d \in Conns \ {c} : out[d] # <<>> /\ out[d][Len(out[d])] = cur[c]
    /\ out[c] = <<>>

C5_Lookup ==
  \A c \in Conns : \A k \in DmCases :
    pc[c] = "read" /\ line'[c] = k[1] =>
      /\ out' = out
      /\ IF k[2] \in DOMAIN users
         THEN /\ pc'[c] = "dmsend"
              /\ target'[c] = users[k[2]]
              /\ cur'[c] = DM_ \o username[c] \o <<" ">> \o k[3]
         ELSE /\ pc'[c] = "reply"
              /\ cur'[c] = ERR_NOT_FOUND

C5_Send ==
  \A c \in Conns :
    pc[c] = "dmsend" /\ pc'[c] # "dmsend" =>
      /\ out' = [out EXCEPT ![target[c]] = Append(@, cur[c])]
      /\ username[target[c]] \in {k[2] : k \in DmCases}

C5_NotFound ==
  \A c \in Conns :
    pc[c] = "reply" /\ cur[c] = ERR_NOT_FOUND /\ pc'[c] # "reply" =>
      out' = out /\ Wrote(c, ERR_NOT_FOUND)

\* C5: "DM <target> <text>" of a logged-in connection whose target is
\* registered when it is looked up puts "DM <sender> <text>" at the tail of
\* the target's mailbox and changes no other mailbox; when the target is not
\* registered the sender is written "ERR user-not-found" and no mailbox changes.
C5_DirectMessage == [][C5_Lookup /\ C5_Send /\ C5_NotFound]_vars

\* "DM b x" of a has been put in the mailbox of b, and nowhere else
C5_Witness ==
  \E c, d \in Conns :
    /\ c # d
    /\ pc[c] = "reply"
    /\ username[c] = HandleA
    /\ username[d] = HandleB
    /\ cur[c] = DM_TO_ \o HandleB \o COLON_ \o TextX
    /\ out[d] = <<DM_ \o HandleA \o <<" ">> \o TextX>>
    /\ \A e \in Conns \ {d} : out[e] = <<>>

C9_Snapshot ==
  \A c \in Conns :
    pc[c] = "who" /\ todo[c] = {} =>
      /\ Len(listed[c]) = Cardinality(DOMAIN users)
      /\ {listed[c][i] : i \in 1..Len(listed[c])} = {USER_ \o h : h \in DOMAIN users}
      /\ username[c] \in DOMAIN users

C9_Frozen ==
  \A c \in Conns : pc[c] = "who" => users' = users

C9_Line ==
  \A c \in Conns :
    pc[c] = "who" /\ listed'[c] # listed[c] /\ pc'[c] = "who" =>
      /\ Len(listed'[c]) = Len(listed[c]) + 1
      /\ Wrote(c, listed'[c][Len(listed'[c])])

\* C9: WHO writes to its caller one "USER <handle>" line for every handle
\* that is registered when it takes the read lock, the caller's among them,
\* none twice and no other; the registry does not change while it runs.
C9_Who == []C9_Snapshot /\ [][C9_Frozen /\ C9_Line]_vars

\* a WHO has listed three registered handles
C9_Witness ==
  \E c \in Conns :
    /\ pc[c] = "who"
    /\ todo[c] = {}
    /\ Len(listed[c]) = 3
    /\ DOMAIN users = Handles

C10_Removed ==
  \A c \in Conns :
    Left(c) => username[c] \notin DOMAIN users \/ users[username[c]] # c

C10_Absent ==
  \A h \in Handles \ DOMAIN users : MapDelete(users, h) = users

C10_Unregister ==
  \A c \in Conns :
    pc[c] = "remove" /\ pc'[c] # "remove" =>
      /\ username[c] \notin DOMAIN users'
      /\ \A h \in DOMAIN users \ {username[c]} : h \in DOMAIN users' /\ users'[h] = users[h]

C10_Lookup ==
  \A c, d \in Conns : \A k \in DmCases :
    /\ Left(d)
    /\ username[d] = k[2]
    /\ k[2] \notin DOMAIN users
    /\ pc[c] = "read"
    /\ line'[c] = k[1]
    => pc'[c] = "reply" /\ cur'[c] = ERR_NOT_FOUND

C10_Again ==
  \A c, d \in Conns :
    /\ Left(d)
    /\ username[c] = username[d]
    /\ username[d] \notin DOMAIN users
    /\ pc[c] = "adduser"
    /\ pc'[c] # "adduser"
    => pc'[c] = "ok" /\ users'[username[c]] = c

\* C10: once hub.removeUser has removed a handle, the registry no longer maps
\* it to the connection that left, a DM to it is answered with
\* "ERR user-not-found" and a LOGIN with it registers it again; deleting a
\* handle that is not registered leaves the registry as it is.
C10_RemoveThenLookup ==
  /\ [](C10_Removed /\ C10_Absent)
  /\ [][C10_Unregister /\ C10_Lookup /\ C10_Again]_vars

\* a handle that one connection held and gave up is held by another
C10_Witness ==
  \E c, d \in Conns :
    /\ c # d
    /\ Left(d)
    /\ pc[d] = "done"
    /\ username[c] = username[d]
    /\ Holding(c)
    /\ users[username[c]] = c

(***************************************************************************)
(* Properties of the channels when a client does not read.                  *)
(***************************************************************************)
C3_Bounded == \A d \in Conns : Len(out[d]) <= MailboxCap

C3_NeverWaits ==
  \A c \in Conns : pc[c] = "bcast" => ENABLED BroadcastStep(c) \/ ENABLED BroadcastEnd(c)

C3_Drop ==
  \A c \in Conns :
    pc[c] = "bcast" /\ todo'[c] # todo[c] =>
      /\ pc'[c] = "bcast"
      /\ \A d \in todo[c] \ todo'[c] :
           /\ todo'[c] = todo[c] \ {d}
           /\ Len(out[d]) = MailboxCap => out' = out
           /\ Len(out[d]) < MailboxCap /\ username[d] # sender[c] =>
                out'[d] = Append(out[d], cur[c])

C3_Through ==
  \A c \in Conns : pc[c] = "bcast" /\ pc'[c] # "bcast" => todo[c] = {}

\* C3: no channel ever holds more than 32 lines; a broadcast that comes to a
\* Client whose channel holds 32 leaves every channel as it is and goes on
\* to the Clients it has not visited yet, which get the line when they have
\* room; hub.broadcast can always take its next step, whatever the channels
\* hold.
C3_DropOnFull == [](C3_Bounded /\ C3_NeverWaits) /\ [][C3_Drop /\ C3_Through]_vars

\* a broadcast of a is over: the full channel of b, whose client does not
\* read and whose clientWriter waits in its write, did not take the line, the
\* channel of c did
C3_Witness ==
  \E c, d, e \in Conns :
    /\ pc[c] = "bcast"
    /\ todo[c] = {}
    /\ Clients = {c, d, e}
    /\ stalled[d]
    /\ wpc[d] = "flush"
    /\ Len(out[d]) = MailboxCap
    /\ got[c] = {e}
    /\ out[e] = <<cur[c]>>

\* C4: a dispatcher never waits in the delivery of a DM: whenever it is at
\* the send, the send can be done.
C4_DmNeverWaits == \A c \in Conns : pc[c] = "dmsend" => ENABLED DmSend(c)

(***************************************************************************)
(* Properties of the teardown and of the idle timer.                        *)
(***************************************************************************)
\* handleConn of c has started its clientWriter: c has logged in
Authenticated(c) == wpc[c] # "none"

C6_Once ==
  \A c \in Conns :
    /\ nRemove[c] <= 1
    /\ nNotice[c] <= nRemove[c]
    /\ pc[c] = "done" /\ Authenticated(c) => nRemove[c] = 1 /\ nNotice[c] = 1
    /\ pc[c] = "done" /\ ~Authenticated(c) => nRemove[c] = 0 /\ nNotice[c] = 0

C6_Notice ==
  \A c \in Conns :
    pc[c] = "bcast" /\ ret[c] = "close" =>
      /\ nRemove[c] = 1
      /\ nNotice[c] = 1
      /\ sender[c] = <<>>
      /\ cur[c] = INFO_ \o username[c] \o DISCONNECTED
      /\ c \notin Clients
      /\ todo[c] \cup got[c] \subseteq Clients

C6_Start ==
  \A c \in Conns :
    pc[c] = "notify" /\ pc'[c] # "notify" =>
      pc'[c] = "bcast" /\ ret'[c] = "close" /\ todo'[c] = Clients /\ users' = users

C6_Attempt ==
  \A c \in Conns :
    pc[c] = "bcast" /\ ret[c] = "close" =>
      /\ users' = users
      /\ todo'[c] # todo[c] \/ pc'[c] # pc[c] => out'[c] = out[c]
      /\ todo'[c] # todo[c] =>
           \E d \in todo[c] :
             /\ todo'[c] = todo[c] \ {d}
             /\ out' = IF Len(out[d]) < MailboxCap
                       THEN [out EXCEPT ![d] = Append(@, cur[c])]
                       ELSE out
      /\ pc'[c] # "bcast" => todo[c] = {} /\ pc'[c] = "done"

\* C6: a connection that logged in and ends, because its client left or
\* because its idle timer closed it or both, calls hub.removeUser once and
\* then hub.broadcast("", "INFO <name> disconnected") once; that broadcast
\* visits every Client registered when it starts and tries to put the line in
\* its channel; the Client that leaves is not among them.
C6_Teardown == [](C6_Once /\ C6_Notice) /\ [][C6_Start /\ C6_Attempt]_vars

\* the client of a left and a's idle timer closed the connection as well; a
\* has been unregistered and its notice is in the channel of the registered b
C6_Witness ==
  \E c, d \in Conns :
    /\ pc[c] = "done"
    /\ eof[c]
    /\ mon[c] = "done"
    /\ nRemove[c] = 1
    /\ nNotice[c] = 1
    /\ Holding(d)
    /\ out[d] # <<>>
    /\ out[d][Len(out[d])] = INFO_ \o username[c] \o DISCONNECTED
    /\ out[c] = <<>>

\* C7: once the goroutine that waits on the idle timer of a connection has
\* got its expiry, the connection is eventually unregistered and its
\* "INFO <name> disconnected" broadcast, whatever its dispatcher is doing.
C7_IdleTeardown ==
  \A c \in Conns : mon[c] = "fired" ~> (pc[c] = "done" /\ nRemove[c] = 1 /\ nNotice[c] = 1)

\* C8: a connection is closed for inactivity no sooner than IdleTimeout
\* after its idle timer was last armed.
C8_NoEarlyClose == \A c \in Conns : mon[c] = "done" => now >= armedAt[c] + IdleTimeout

\* a pending expiry is never left in idleTimer.C by a reset, and a reset of a
\* running timer keeps its expiry from being delivered
C8_NoStale ==
  \A c \in Conns :
    armedAt'[c] # armedAt[c] \/ deadline'[c] # deadline[c] => ~tchan'[c] /\ active'[c]

\* a connection whose dispatcher goes back to reader.Scan() without a line
\* to work on, as it does on a blank line, has its idle timer left as armed
C8_Blank ==
  \A c \in Conns :
    pc[c] = "read" /\ pc'[c] = "read" /\ line'[c] = <<>> =>
      armedAt'[c] = armedAt[c] /\ deadline'[c] = deadline[c]

C8_ResetParts == [][C8_NoStale /\ C8_Blank]_vars

(***************************************************************************)
(* Properties of the lines a client may send, well formed or not.           *)
(***************************************************************************)
\* "LOGIN " and "LOGIN a b": LOGIN with no handle, and with a handle that
\* holds a space
BadHandleLines == {LOGIN_, LOGIN_ \o <<"a", " ", "b">>}

\* "MSG  ": MSG with nothing but white space after it
BlankMsgLine == MSG_ \o <<" ">>

\* "DM c" and "DM ": DM with fewer than three tokens
ShortDmLines == {DM_ \o HandleC, DM_}

\* C11: a connection whose first line is no LOGIN is answered
\* "ERR expected 'LOGIN <username>'", one whose first line is a LOGIN with no
\* handle or with a handle holding a space is answered "ERR invalid-username";
\* neither ever logs in.
C11_Handshake ==
  \A c \in Conns :
    pc[c] = "done" /\ username[c] = <<>> =>
      /\ ~Authenticated(c)
      /\ stream[c] # <<>> =>
           stream[c] = << (IF sent[c] \in BadHandleLines THEN ERR_INVALID ELSE ERR_EXPECTED)
                          \o NL >>

\* C12: a logged-in connection that sends MSG with nothing but white space
\* after it is written no response.
C12_BlankMsgIgnored ==
  \A c \in Conns :
    Authenticated(c) /\ sent[c] = BlankMsgLine =>
      /\ pc[c] # "reply"
      /\ \A i \in 1..Len(stream[c]) : ~HasPrefix(stream[c][i], <<"E", "R", "R">>)

\* C18: a logged-in connection that sends a DM of fewer than three tokens is
\* answered with the usage error, one that sends an unknown keyword with
\* "ERR unknown-cmd"; the connection goes on.
C18_Malformed ==
  \A c \in Conns :
    Authenticated(c) /\ pc[c] = "reply" =>
      /\ sent[c] \in ShortDmLines => cur[c] = ERR_USAGE
      /\ sent[c] = <<"F", "O", "O">> => cur[c] = ERR_UNKNOWN

\* C19: every registered handle is non-empty and holds no white space of any
\* kind.
C19_NoWhitespace ==
  \A h \in DOMAIN users : h # <<>> /\ \A i \in 1..Len(h) : ~IsSpace(h[i])

(***************************************************************************)
(* Properties of the goroutines of a connection that has ended.             *)
(***************************************************************************)
\* C13: the clientWriter of a connection that logged in and has been torn
\* down eventually returns.
C13_WriterExits ==
  \A c \in Conns : (pc[c] = "done" /\ Authenticated(c)) ~> wpc[c] = "exit"


\* c is in a write to its connection that cannot be done now
WriteWaits(c) == pc[c] = "who" /\ todo[c] # {} /\ ~CanWrite(c)

\* C14: no dispatcher holds the read lock of the registry while it waits in
\* a write to its connection, so that a LOGIN or a teardown of another
\* connection that has come to the registry can go on.
C14_NoLockAcrossWrite ==
  \A c \in Conns :
    WriteWaits(c) =>
      /\ c \notin rlock
      /\ \A d \in Conns \ {c} :
           /\ pc[d] = "adduser" => ENABLED addUser(d)
           /\ pc[d] = "remove" => ENABLED removeUser(d)

\* the goroutines of c that are in a write to its connection
Writing(c) ==
  {g \in {"dispatcher", "writer", "monitor"} :
     \/ g = "dispatcher" /\ (pc[c] = "reply" \/ (pc[c] = "who" /\ todo[c] # {}))
     \/ g = "writer" /\ wpc[c] = "flush"
     \/ g = "monitor" /\ mon[c] = "fired"}

\* C15: at no time are two goroutines in a write to the same connection.
C15_Serialized == \A c \in Conns : Authenticated(c) => Cardinality(Writing(c)) <= 1

\* C17: once a connection that logged in has been torn down, none of its
\* goroutines is in a write to it.
C17_Absorbing == \A c \in Conns : pc[c] = "done" /\ Authenticated(c) => Writing(c) = {}


(***************************************************************************)
(* Properties of the registry as a whole, and of the first line written.    *)
(***************************************************************************)
\* the connections that have registered h and not yet unregistered it
Active(h) == {c \in Conns : Holding(c) /\ username[c] = h}

C16_Members ==
  \A h \in Handles \cup DOMAIN users :
    /\ Cardinality(Active(h)) <= 1
    /\ h \in DOMAIN users <=> Active(h) # {}
    /\ h \in DOMAIN users => Active(h) = {users[h]}

C16_OwnOnly ==
  \A c \in Conns :
    pc[c] = "remove" /\ pc'[c] # "remove" =>
      /\ username[c] \in DOMAIN users
      /\ users[username[c]] = c
      /\ users' = [h \in DOMAIN users \ {username[c]} |-> users[h]]

C16_Changes ==
  users' # users => \E c \in Conns : pc[c] \in {"adduser", "remove"} /\ pc'[c] # pc[c]

\* C16: a handle is a key of the registry exactly while one connection, and
\* only one, is between its successful hub.addUser and its hub.removeUser, and
\* the registry maps the handle to that connection; hub.removeUser of a
\* connection removes the entry that connection made and no other, and
\* nothing else changes the registry.
C16_RegistryExact == []C16_Members /\ [][C16_OwnOnly /\ C16_Changes]_vars

\* one connection has just unregistered its handle while two others hold
\* theirs
C16_Witness ==
  \E d \in Conns :
    /\ pc[d] = "notify"
    /\ username[d] \notin DOMAIN users
    /\ Cardinality(DOMAIN users) = 2
    /\ \A c \in Conns \ {d} : Holding(c) /\ users[username[c]] = c

C20_NoWriterYet ==
  \A c \in Conns : pc[c] \in {"login", "adduser", "ok"} => wpc[c] = "none" /\ wline[c] = <<>>

C20_OkFirst ==
  \A c \in Conns :
    wpc[c] = "none" /\ stream'[c] # stream[c] /\ Len(stream'[c]) > Len(stream[c]) =>
      IF pc[c] = "ok"
      THEN /\ stream'[c] = Append(stream[c], OK \o NL)
           /\ pc'[c] = "read"
           /\ wpc'[c] = "run"
      ELSE pc[c] \in {"login", "adduser"} /\ pc'[c] = "done" /\ wpc'[c] = "none"

C20_Kept ==
  \A c \in Conns :
    wpc[c] = "none" =>
      /\ Len(out'[c]) >= Len(out[c])
      /\ SubSeq(out'[c], 1, Len(out[c])) = out[c]

C20_WrittenAfter ==
  \A c \in Conns :
    /\ wpc[c] = "run" /\ wpc'[c] = "flush" =>
         out[c] # <<>> /\ wline'[c] = Head(out[c]) /\ out'[c] = Tail(out[c])
    /\ wpc[c] = "flush" /\ stream'[c] # stream[c] /\ Len(stream'[c]) > Len(stream[c])
       /\ pc'[c] = pc[c] /\ todo'[c] = todo[c] =>
         stream'[c] = Append(stream[c], wline[c] \o NL)

\* C20: nothing is written to a connection that logs in before "OK", and the
\* clientWriter starts with the step that writes "OK"; a line put in the
\* channel of the Client between hub.addUser and that step stays there, and
\* the clientWriter writes the lines of the channel from its head.
C20_OkBeforeMailbox ==
  /\ []C20_NoWriterYet
  /\ [][C20_OkFirst /\ C20_Kept /\ C20_WrittenAfter]_vars

\* a registered connection that has not been written "OK" yet has a MSG of
\* another in its channel
C20_Witness ==
  \E c, d \in Conns :
    /\ c # d
    /\ pc[c] = "ok"
    /\ wpc[c] = "none"
    /\ Holding(d)
    /\ out[c] = <<MSG_ \o username[d] \o <<" ">> \o TextX>>

====
